---- MODULE Spec2Model ----
(***************************************************************************)
(* Streaming dictation daemon (whisper_dictate_daemon.py): the session     *)
(* state kept in module globals, the command handlers start / stop /       *)
(* toggle / status run by one thread per connection, the reader thread     *)
(* that consumes the relay's output lines, the signal-driven cleanup, and  *)
(* the external processes (capturer "arecord", relay "nc") as environment. *)
(*                                                                         *)
(* Text is a sequence of one-character strings.  None is modelled as 0.    *)
(***************************************************************************)
EXTENDS Integers, Sequences, FiniteSets, TLC

\* ------------------------------------------------------------------ bounds
\* Number of command-handling threads (one per accepted connection).
NumThreads == 2
\* Total number of commands dispatched over a run.
MaxCmds == 3
\* Number of lines the relays write to their standard output over a run.
MaxLines == 2

Threads == 1..NumThreads
\* Pipelines (capturer + relay) a run can spawn: one per command at most.
Sessions == 1..MaxCmds
None == 0

\* ------------------------------------------------------- configuration
STREAMING_HOST == "localhost"
STREAMING_PORT == "43001"

\* ------------------------------------------------ lines the relay writes
\* "0 5 H\n", "5 9  w\n" (text with a leading space), "g\n" (one field).
LineHello == <<"0", " ", "5", " ", "H", "\n">>
LineWorld == <<"5", " ", "9", " ", " ", "w", "\n">>
LineGarbage == <<"g", "\n">>
LineTable == <<LineHello, LineWorld, LineGarbage>>
LineIds == 1..Len(LineTable)

\* ------------------------------------------------------- pure functions
IsSpace(c) == c \in {" ", "\n", "\t"}

RECURSIVE LStrip(_)
LStrip(s) == IF s # <<>> /\ IsSpace(Head(s)) THEN LStrip(Tail(s)) ELSE s

RECURSIVE RStrip(_)
RStrip(s) ==
    IF s # <<>> /\ IsSpace(s[Len(s)]) THEN RStrip(SubSeq(s, 1, Len(s) - 1)) ELSE s

\* str.strip()
Strip(s) == RStrip(LStrip(s))

\* Index of the first ' ' of s at or after position i, 0 when there is none.
RECURSIVE FindSpace(_, _)
FindSpace(s, i) ==
    IF i > Len(s) THEN 0
    ELSE IF s[i] = " " THEN i
    ELSE FindSpace(s, i + 1)

\* parts = line.strip().split(' ', maxsplit=2); parts[2] if len(parts) >= 3
parse_streaming_line(line) ==
    LET st == Strip(line)
        i  == FindSpace(st, 1)
        j  == IF i = 0 THEN 0 ELSE FindSpace(st, i + 1)
    IN  IF j = 0 THEN <<>> ELSE SubSeq(st, j + 1, Len(st))

\* What the reader makes of one raw line: strip (line 134), then parse if
\* something is left (lines 135-137).
LineText(line) ==
    LET st == Strip(line) IN IF st = <<>> THEN <<>> ELSE parse_streaming_line(st)

\* Concatenation of the parsed text of a sequence of line ids.
RECURSIVE ConcatText(_)
ConcatText(ids) ==
    IF ids = <<>> THEN <<>> ELSE LineText(LineTable[Head(ids)]) \o ConcatText(Tail(ids))

\* a is a subsequence of b (the elements of a occur in b in the same order).
RECURSIVE IsSubseq(_, _)
IsSubseq(a, b) ==
    IF a = <<>> THEN TRUE
    ELSE IF b = <<>> THEN FALSE
    ELSE IF Head(a) = Head(b) THEN IsSubseq(Tail(a), Tail(b))
    ELSE IsSubseq(a, Tail(b))

\* ------------------------------------------------------------ responses
Resp(st, msg, txt) ==
    [status |-> st, message |-> msg, text |-> txt,
     streaming |-> FALSE, server_available |-> FALSE]
NoResp == Resp("none", <<>>, <<>>)
MsgAlready == <<"Already streaming">>
MsgNotStreaming == <<"Not streaming">>
MsgUnavailable ==
    <<"Streaming server not available at ", STREAMING_HOST, ":", STREAMING_PORT,
      ". Check: systemctl --user status whisper-streaming-server">>
MsgStarted == <<"Streaming started">>
MsgToolMissing(tool) == <<"Required tool not found: ", tool>>
MsgException == <<"str(e)">>
MsgStopped == <<"Stopped">>
MsgNoSpeech == <<"Stopped (no speech detected)">>
MsgStatus == <<>>

\* The record of the command that returned last.
NoLast == [cmd |-> "none", resp |-> NoResp, solo |-> FALSE, after |-> FALSE,
           streaming |-> FALSE]

VARIABLES
    \* module globals (lines 27-32)
    arecord_proc,    \* None or the session whose capturer it is
    nc_proc,         \* None or the session whose relay it is
    reader_thread,   \* None or the reader (named by the session that started it)
    streaming_lock,  \* None or the thread holding the lock
    typed_so_far,    \* accumulated text
    stop_reader,     \* the Event: TRUE when set
    \* command threads (one slot per connection being handled)
    pc, cmd, is_streaming, final_text, sess,
    \* reader threads, one per session that started one
    rpc, rsrc, rtext, rtmp,
    \* external processes and the relay's stdout pipe, per session
    arecord_state, nc_state, pipe,
    \* main thread: serving, or inside cleanup, or exited; the socket file
    main_pc, socket_file,
    \* bookkeeping for the bounds
    ncmds, nsessions, nlines,
    \* history: what has happened, for stating the properties
    sessionOpen,     \* a start returned ok and no stop returned ok since
    emitted,         \* per session, the line ids its relay has written
    injected,        \* per reader, the text it passed to type_text, in order
    cleanup_log,     \* the calls cleanup has made, in order
    solo,            \* per thread: nothing else ran during its command so far
    after,           \* per thread: its command directly follows a first toggle
    last             \* the command that returned last, until the next dispatch

globals == <<arecord_proc, nc_proc, reader_thread, streaming_lock, typed_so_far, stop_reader>>
locals == <<is_streaming, final_text, sess>>
ctl == <<pc, cmd, ncmds, solo, after, last>>
readerVars == <<rpc, rsrc, rtext, rtmp>>
procVars == <<arecord_state, nc_state, pipe>>
vars == <<globals, locals, ctl, readerVars, procVars, main_pc, socket_file,
          nsessions, nlines, sessionOpen, emitted, injected, cleanup_log>>

Init ==
    /\ arecord_proc = None /\ nc_proc = None /\ reader_thread = None
    /\ streaming_lock = None
    /\ typed_so_far = <<>>
    /\ stop_reader = FALSE
    /\ pc = [t \in Threads |-> "idle"]
    /\ cmd = [t \in Threads |-> "none"]
    /\ is_streaming = [t \in Threads |-> FALSE]
    /\ final_text = [t \in Threads |-> <<>>]
    /\ sess = [t \in Threads |-> None]
    /\ rpc = [r \in Sessions |-> "none"]
    /\ rsrc = [r \in Sessions |-> None]
    /\ rtext = [r \in Sessions |-> <<>>]
    /\ rtmp = [r \in Sessions |-> <<>>]
    /\ arecord_state = [s \in Sessions |-> "none"]
    /\ nc_state = [s \in Sessions |-> "none"]
    /\ pipe = [s \in Sessions |-> <<>>]
    /\ main_pc = "serving" /\ socket_file = TRUE
    /\ ncmds = 0 /\ nsessions = 0 /\ nlines = 0
    /\ sessionOpen = FALSE
    /\ emitted = [s \in Sessions |-> <<>>]
    /\ injected = [r \in Sessions |-> <<>>]
    /\ cleanup_log = <<>>
    /\ solo = [t \in Threads |-> FALSE]
    /\ after = [t \in Threads |-> FALSE]
    /\ last = NoLast

\* The process is running (cleanup has not reached sys.exit).
Alive == main_pc # "exited"

\* The command that returned last was a toggle that ran alone, found the
\* session Idle and returned ok.
FirstToggle ==
    last.cmd = "toggle" /\ last.solo /\ ~last.streaming /\ last.resp.status = "ok"

\* One step of command thread t (handle_client -> handle_command).  When t is
\* idle the step dispatches command c: main()'s accept loop is serving and
\* hands the connection to a new thread (the lowest free slot).  When the step
\* returns (npc = "idle") res is the response sent back and the thread ends.
ThreadStep(t, c, npc, res) ==
    LET entering == pc[t] = "idle"
        theCmd   == IF entering THEN c ELSE cmd[t]
        theSolo  == IF entering THEN \A v \in Threads \ {t} : pc[v] = "idle" ELSE solo[t]
        theAfter == IF entering THEN FirstToggle ELSE after[t]
    IN  /\ Alive
        /\ entering => /\ main_pc = "serving"
                       /\ ncmds < MaxCmds
                       /\ \A u \in Threads : u < t => pc[u] # "idle"
        /\ ncmds' = IF entering THEN ncmds + 1 ELSE ncmds
        /\ pc' = [pc EXCEPT ![t] = npc]
        /\ cmd' = [cmd EXCEPT ![t] = IF npc = "idle" THEN "none" ELSE theCmd]
        /\ solo' = [u \in Threads |->
                      IF u = t THEN (npc # "idle" /\ theSolo)
                      ELSE IF entering THEN FALSE ELSE solo[u]]
        /\ after' = [after EXCEPT ![t] = (npc # "idle" /\ theAfter)]
        /\ last' = IF npc = "idle"
                   THEN [cmd |-> theCmd, resp |-> res, solo |-> theSolo,
                         after |-> theAfter, streaming |-> is_streaming[t]]
                   ELSE IF entering THEN NoLast ELSE last

\* The thread's local variables die with it.
EndLocals(t) ==
    /\ is_streaming' = [is_streaming EXCEPT ![t] = FALSE]
    /\ final_text' = [final_text EXCEPT ![t] = <<>>]
    /\ sess' = [sess EXCEPT ![t] = None]

\* ---------------------------------------------------------------- start
\* Mutant: resets the accumulated text before testing for an active session.
start_check_reset_first(t) ==
    /\ pc[t] \in {"idle", "toggle_start"}
    /\ streaming_lock = None
    /\ typed_so_far' = <<>>
    /\ IF arecord_proc # None
       THEN /\ ThreadStep(t, "start", "idle", Resp("error", MsgAlready, <<>>))
            /\ EndLocals(t)
            /\ UNCHANGED streaming_lock
       ELSE /\ ThreadStep(t, "start", "start_probe", NoResp)
            /\ streaming_lock' = t
            /\ UNCHANGED locals
    /\ UNCHANGED <<arecord_proc, nc_proc, reader_thread, stop_reader,
                   readerVars, procVars, main_pc, socket_file, cleanup_log, nsessions, nlines,
                   sessionOpen, emitted, injected>>

\* Mutant: the test for an active session is made without taking the lock.
start_check_unlocked(t) ==
    /\ pc[t] \in {"idle", "toggle_start"}
    /\ IF arecord_proc # None
       THEN /\ ThreadStep(t, "start", "idle", Resp("error", MsgAlready, <<>>))
            /\ EndLocals(t)
            /\ UNCHANGED streaming_lock
       ELSE /\ ThreadStep(t, "start", "start_probe", NoResp)
            /\ streaming_lock' = t
            /\ UNCHANGED locals
    /\ UNCHANGED <<arecord_proc, nc_proc, reader_thread, typed_so_far, stop_reader,
                   readerVars, procVars, main_pc, socket_file, cleanup_log, nsessions, nlines,
                   sessionOpen, emitted, injected>>

\* start_streaming, lines 163-165: take the lock, refuse when a capturer exists.
StartCheck(t) ==
    /\ pc[t] \in {"idle", "toggle_start"}
    /\ streaming_lock = None
    /\ IF arecord_proc # None
       THEN /\ ThreadStep(t, "start", "idle", Resp("error", MsgAlready, <<>>))
            /\ EndLocals(t)
            /\ UNCHANGED streaming_lock
       ELSE /\ ThreadStep(t, "start", "start_probe", NoResp)
            /\ streaming_lock' = t
            /\ UNCHANGED locals
    /\ UNCHANGED <<arecord_proc, nc_proc, reader_thread, typed_so_far, stop_reader,
                   readerVars, procVars, main_pc, socket_file, cleanup_log, nsessions, nlines,
                   sessionOpen, emitted, injected>>

\* Mutant: the accumulated text is reset before the probe's answer is known.
start_probe_reset_first(t, avail) ==
    /\ pc[t] = "start_probe"
    /\ typed_so_far' = <<>>
    /\ IF avail
       THEN /\ ThreadStep(t, "start", "start_arecord", NoResp)
            /\ UNCHANGED <<streaming_lock, locals>>
       ELSE /\ ThreadStep(t, "start", "idle", Resp("error", MsgUnavailable, <<>>))
            /\ EndLocals(t)
            /\ streaming_lock' = None
    /\ UNCHANGED <<arecord_proc, nc_proc, reader_thread, stop_reader,
                   readerVars, procVars, main_pc, socket_file, cleanup_log, nsessions, nlines,
                   sessionOpen, emitted, injected>>

\* start_streaming, lines 167-177: check_streaming_server() (lines 148-156)
\* answers avail; on failure return the error, on success reset the text.
StartProbe(t, avail) ==
    /\ pc[t] = "start_probe"
    /\ IF avail
       THEN /\ ThreadStep(t, "start", "start_arecord", NoResp)
            /\ typed_so_far' = <<>>
            /\ UNCHANGED <<streaming_lock, locals>>
       ELSE /\ ThreadStep(t, "start", "idle", Resp("error", MsgUnavailable, <<>>))
            /\ EndLocals(t)
            /\ streaming_lock' = None
            /\ UNCHANGED typed_so_far
    /\ UNCHANGED <<arecord_proc, nc_proc, reader_thread, stop_reader,
                   readerVars, procVars, main_pc, socket_file, cleanup_log, nsessions, nlines,
                   sessionOpen, emitted, injected>>

\* The response of the except clauses, lines 205-212.
StartError(outcome, tool) ==
    IF outcome = "FileNotFoundError"
    THEN Resp("error", MsgToolMissing(tool), <<>>)
    ELSE Resp("error", MsgException, <<>>)

\* start_streaming, lines 178-186: stop_reader.clear(), then Popen(arecord).
StartArecord(t, outcome) ==
    /\ pc[t] = "start_arecord"
    /\ stop_reader' = FALSE
    /\ IF outcome = "ok"
       THEN /\ ThreadStep(t, "start", "start_nc", NoResp)
            /\ nsessions' = nsessions + 1
            /\ arecord_state' = [arecord_state EXCEPT ![nsessions + 1] = "running"]
            /\ arecord_proc' = nsessions + 1
            /\ sess' = [sess EXCEPT ![t] = nsessions + 1]
            /\ UNCHANGED <<nc_proc, streaming_lock, is_streaming, final_text>>
       ELSE /\ ThreadStep(t, "start", "idle", StartError(outcome, "arecord"))
            /\ EndLocals(t)
            /\ arecord_proc' = None /\ nc_proc' = None
            /\ streaming_lock' = None
            /\ UNCHANGED <<nsessions, arecord_state>>
    /\ UNCHANGED <<reader_thread, typed_so_far, readerVars, nc_state, pipe, main_pc,
                   socket_file, cleanup_log, nlines, sessionOpen, emitted, injected>>

\* Mutant: the except clauses leave arecord_proc set.
start_nc_keeps_handle(t, outcome) ==
    /\ pc[t] = "start_nc"
    /\ arecord_proc = None => outcome = "Exception"
    /\ IF outcome = "ok"
       THEN /\ ThreadStep(t, "start", "start_reader", NoResp)
            /\ nc_state' = [nc_state EXCEPT ![arecord_proc] = "running"]
            /\ nc_proc' = arecord_proc
            /\ UNCHANGED <<arecord_proc, streaming_lock, locals>>
       ELSE /\ ThreadStep(t, "start", "idle", StartError(outcome, "nc"))
            /\ EndLocals(t)
            /\ nc_proc' = None
            /\ streaming_lock' = None
            /\ UNCHANGED <<nc_state, arecord_proc>>
    /\ UNCHANGED <<reader_thread, typed_so_far, stop_reader, readerVars, arecord_state,
                   pipe, main_pc, socket_file, cleanup_log, nsessions, nlines, sessionOpen, emitted,
                   injected>>

\* start_streaming, lines 188-196: Popen(nc, stdin=arecord_proc.stdout).  With
\* arecord_proc already cleared by cleanup the attribute access raises.
StartNc(t, outcome) ==
    /\ pc[t] = "start_nc"
    /\ arecord_proc = None => outcome = "Exception"
    /\ IF outcome = "ok"
       THEN /\ ThreadStep(t, "start", "start_reader", NoResp)
            /\ nc_state' = [nc_state EXCEPT ![arecord_proc] = "running"]
            /\ nc_proc' = arecord_proc
            /\ UNCHANGED <<arecord_proc, streaming_lock, locals>>
       ELSE /\ ThreadStep(t, "start", "idle", StartError(outcome, "nc"))
            /\ EndLocals(t)
            /\ arecord_proc' = None /\ nc_proc' = None
            /\ streaming_lock' = None
            /\ UNCHANGED nc_state
    /\ UNCHANGED <<reader_thread, typed_so_far, stop_reader, readerVars, arecord_state,
                   pipe, main_pc, socket_file, cleanup_log, nsessions, nlines, sessionOpen, emitted,
                   injected>>

\* start_streaming, lines 198-203: start the reader thread, return ok.
StartReader(t) ==
    /\ pc[t] = "start_reader"
    /\ ThreadStep(t, "start", "idle", Resp("ok", MsgStarted, <<>>))
    /\ EndLocals(t)
    /\ reader_thread' = sess[t]
    /\ rpc' = [rpc EXCEPT ![sess[t]] = "loop"]
    /\ sessionOpen' = TRUE
    /\ streaming_lock' = None
    /\ UNCHANGED <<arecord_proc, nc_proc, typed_so_far, stop_reader, rsrc, rtext, rtmp,
                   procVars, main_pc, socket_file, cleanup_log, nsessions, nlines, emitted, injected>>

\* ----------------------------------------------------------------- stop
\* The response of stop_streaming, lines 260-263.
StopResponse(txt) ==
    IF txt # <<>> THEN Resp("ok", MsgStopped, txt) ELSE Resp("ok", MsgNoSpeech, <<>>)

\* Mutant: the reader is signalled before the test for an active session.
stop_check_signal_first(t) ==
    /\ pc[t] \in {"idle", "toggle_stop"}
    /\ streaming_lock = None
    /\ stop_reader' = TRUE
    /\ IF arecord_proc = None
       THEN /\ ThreadStep(t, "stop", "idle", Resp("error", MsgNotStreaming, <<>>))
            /\ EndLocals(t)
            /\ UNCHANGED streaming_lock
       ELSE /\ ThreadStep(t, "stop", "stop_arecord", NoResp)
            /\ streaming_lock' = t
            /\ final_text' = [final_text EXCEPT ![t] = typed_so_far]
            /\ sess' = [sess EXCEPT ![t] = arecord_proc]
            /\ UNCHANGED is_streaming
    /\ UNCHANGED <<arecord_proc, nc_proc, reader_thread, typed_so_far, readerVars,
                   procVars, main_pc, socket_file, cleanup_log, nsessions, nlines, sessionOpen,
                   emitted, injected>>

\* stop_streaming, lines 219-227: take the lock, refuse when no capturer
\* exists; else remember the text so far and set stop_reader.
StopCheck(t) ==
    /\ pc[t] \in {"idle", "toggle_stop"}
    /\ streaming_lock = None
    /\ IF arecord_proc = None
       THEN /\ ThreadStep(t, "stop", "idle", Resp("error", MsgNotStreaming, <<>>))
            /\ EndLocals(t)
            /\ UNCHANGED <<streaming_lock, stop_reader>>
       ELSE /\ ThreadStep(t, "stop", "stop_arecord", NoResp)
            /\ streaming_lock' = t
            /\ final_text' = [final_text EXCEPT ![t] = typed_so_far]
            /\ sess' = [sess EXCEPT ![t] = arecord_proc]
            /\ stop_reader' = TRUE
            /\ UNCHANGED is_streaming
    /\ UNCHANGED <<arecord_proc, nc_proc, reader_thread, typed_so_far, readerVars,
                   procVars, main_pc, socket_file, cleanup_log, nsessions, nlines, sessionOpen,
                   emitted, injected>>

\* Mutant: the capturer is left running and the teardown moves on to the relay.
stop_arecord_leaves_capturer(t) ==
    /\ pc[t] = "stop_arecord"
    /\ ThreadStep(t, "stop", "stop_nc", NoResp)
    /\ UNCHANGED <<globals, locals, readerVars, procVars, main_pc, socket_file, cleanup_log, nsessions, nlines,
                   sessionOpen, emitted, injected>>

\* stop_streaming, lines 229-235: terminate the capturer, kill it when it has
\* not exited after the bounded wait; either way it is gone.
StopArecord(t) ==
    /\ pc[t] = "stop_arecord"
    /\ ThreadStep(t, "stop", "stop_nc", NoResp)
    /\ IF arecord_proc # None /\ arecord_state[arecord_proc] = "running"
       THEN arecord_state' = [arecord_state EXCEPT ![arecord_proc] = "dead"]
       ELSE UNCHANGED arecord_state
    /\ UNCHANGED <<globals, locals, readerVars, nc_state, pipe, main_pc, socket_file, cleanup_log,
                   nsessions, nlines, sessionOpen, emitted, injected>>

\* stop_streaming, lines 237-242: wait for the relay; the step is taken either
\* after the relay has exited or when the bounded wait expires, and then the
\* relay is terminated.
StopNc(t) ==
    /\ pc[t] = "stop_nc"
    /\ ThreadStep(t, "stop", "stop_join", NoResp)
    /\ IF nc_proc # None /\ nc_state[nc_proc] = "running"
       THEN nc_state' = [nc_state EXCEPT ![nc_proc] = "dead"]
       ELSE UNCHANGED nc_state
    /\ UNCHANGED <<globals, locals, readerVars, arecord_state, pipe, main_pc,
                   socket_file, cleanup_log, nsessions, nlines, sessionOpen, emitted, injected>>

\* Mutant: the join has no timeout, it returns only when the reader has finished.
stop_join_unbounded(t) ==
    /\ pc[t] = "stop_join"
    /\ reader_thread # None => rpc[reader_thread] = "done"
    /\ ThreadStep(t, "stop", "stop_finally", NoResp)
    /\ final_text' = [final_text EXCEPT ![t] = typed_so_far]
    /\ UNCHANGED <<globals, is_streaming, sess, readerVars, procVars, main_pc, socket_file, cleanup_log, nsessions, nlines,
                   sessionOpen, emitted, injected>>

\* stop_streaming, lines 244-251: join the reader (the step is taken when the
\* reader has finished or when the bounded join expires), then read the text.
StopJoin(t) ==
    /\ pc[t] = "stop_join"
    /\ ThreadStep(t, "stop", "stop_finally", NoResp)
    /\ final_text' = [final_text EXCEPT ![t] = typed_so_far]
    /\ UNCHANGED <<globals, is_streaming, sess, readerVars, procVars, main_pc,
                   socket_file, cleanup_log, nsessions, nlines, sessionOpen, emitted, injected>>

\* Mutant: the except clause drops the text read before the teardown.
stop_raise_loses_text(t) ==
    /\ pc[t] = "stop_arecord"
    /\ ThreadStep(t, "stop", "stop_finally", NoResp)
    /\ final_text' = [final_text EXCEPT ![t] = <<>>]
    /\ UNCHANGED <<globals, is_streaming, sess, readerVars, procVars, main_pc, socket_file, cleanup_log, nsessions, nlines,
                   sessionOpen, emitted, injected>>

\* stop_streaming, lines 253-254: terminating the capturer raises; the text
\* stays the one read at line 223.
StopRaise(t) ==
    /\ pc[t] = "stop_arecord"
    /\ ThreadStep(t, "stop", "stop_finally", NoResp)
    /\ UNCHANGED <<globals, locals, readerVars, procVars, main_pc, socket_file, cleanup_log,
                   nsessions, nlines, sessionOpen, emitted, injected>>

\* Mutant: an empty transcript is answered with an error.
stop_finally_empty_is_error(t) ==
    /\ pc[t] = "stop_finally"
    /\ ThreadStep(t, "stop", "idle",
                  IF final_text[t] # <<>> THEN Resp("ok", MsgStopped, final_text[t])
                  ELSE Resp("error", MsgNoSpeech, <<>>))
    /\ EndLocals(t)
    /\ arecord_proc' = None /\ nc_proc' = None /\ reader_thread' = None
    /\ sessionOpen' = FALSE
    /\ streaming_lock' = None
    /\ UNCHANGED <<typed_so_far, stop_reader, readerVars, procVars, main_pc,
                   socket_file, cleanup_log, nsessions, nlines, emitted, injected>>

\* stop_streaming, lines 255-263: clear the handles, return ok with the text.
StopFinally(t) ==
    /\ pc[t] = "stop_finally"
    /\ ThreadStep(t, "stop", "idle", StopResponse(final_text[t]))
    /\ EndLocals(t)
    /\ arecord_proc' = None /\ nc_proc' = None /\ reader_thread' = None
    /\ sessionOpen' = FALSE
    /\ streaming_lock' = None
    /\ UNCHANGED <<typed_so_far, stop_reader, readerVars, procVars, main_pc,
                   socket_file, cleanup_log, nsessions, nlines, emitted, injected>>

\* --------------------------------------------------------------- toggle
\* toggle_streaming, lines 268-274: read the flag under the lock, release
\* the lock, then call stop_streaming or start_streaming.
ToggleCheck(t) ==
    /\ pc[t] = "idle"
    /\ streaming_lock = None
    /\ ThreadStep(t, "toggle", IF arecord_proc # None THEN "toggle_stop" ELSE "toggle_start",
                  NoResp)
    /\ is_streaming' = [is_streaming EXCEPT ![t] = (arecord_proc # None)]
    /\ UNCHANGED <<globals, final_text, sess, readerVars, procVars, main_pc, socket_file, cleanup_log,
                   nsessions, nlines, sessionOpen, emitted, injected>>

\* --------------------------------------------------------------- status
\* get_status, lines 279-280: read the flag under the lock, release the lock.
StatusCheck(t) ==
    /\ pc[t] = "idle"
    /\ streaming_lock = None
    /\ ThreadStep(t, "status", "status_probe", NoResp)
    /\ is_streaming' = [is_streaming EXCEPT ![t] = (arecord_proc # None)]
    /\ UNCHANGED <<globals, final_text, sess, readerVars, procVars, main_pc, socket_file, cleanup_log,
                   nsessions, nlines, sessionOpen, emitted, injected>>

\* The response of get_status, lines 284-292.
StatusResponse(streaming, avail, txt) ==
    [status |-> "ok", message |-> MsgStatus, text |-> IF streaming THEN txt ELSE <<>>,
     streaming |-> streaming, server_available |-> avail]

\* Mutant: with no session active the accumulated text itself is cleared.
status_return_clears_text(t, avail) ==
    /\ pc[t] = "status_probe"
    /\ ThreadStep(t, "status", "idle", StatusResponse(is_streaming[t], avail, typed_so_far))
    /\ EndLocals(t)
    /\ typed_so_far' = IF is_streaming[t] THEN typed_so_far ELSE <<>>
    /\ UNCHANGED <<arecord_proc, nc_proc, reader_thread, streaming_lock, stop_reader,
                   readerVars, procVars, main_pc, socket_file, cleanup_log, nsessions,
                   nlines, sessionOpen, emitted, injected>>

\* get_status, lines 282-292: probe the server, build the response.
StatusReturn(t, avail) ==
    /\ pc[t] = "status_probe"
    /\ ThreadStep(t, "status", "idle", StatusResponse(is_streaming[t], avail, typed_so_far))
    /\ EndLocals(t)
    /\ UNCHANGED <<globals, readerVars, procVars, main_pc, socket_file, cleanup_log, nsessions,
                   nlines, sessionOpen, emitted, injected>>

\* --------------------------------------------------------- reader thread
\* reader_thread_func, lines 123-125: leave the loop when stop_reader is set
\* or nc_proc is None; else read from the stdout of the current nc_proc.
ReaderLoop(r) ==
    /\ Alive
    /\ rpc[r] = "loop"
    /\ IF stop_reader \/ nc_proc = None
       THEN rpc' = [rpc EXCEPT ![r] = "done"] /\ UNCHANGED rsrc
       ELSE rpc' = [rpc EXCEPT ![r] = "readline"] /\ rsrc' = [rsrc EXCEPT ![r] = nc_proc]
    /\ UNCHANGED <<globals, locals, ctl, rtext, rtmp, procVars, main_pc, socket_file, cleanup_log,
                   nsessions, nlines, sessionOpen, emitted, injected>>

\* reader_thread_func, lines 128-139, and handle_streaming_output, lines
\* 106-111: a blocking readline; end of file ends the thread; a line is
\* stripped and parsed, and non-empty text is passed to type_text.
ReaderReadline(r) ==
    /\ Alive
    /\ rpc[r] = "readline"
    /\ IF pipe[rsrc[r]] # <<>>
       THEN LET text == LineText(LineTable[Head(pipe[rsrc[r]])]) IN
            /\ pipe' = [pipe EXCEPT ![rsrc[r]] = Tail(@)]
            /\ rsrc' = [rsrc EXCEPT ![r] = None]
            /\ IF text = <<>>
               THEN /\ rpc' = [rpc EXCEPT ![r] = "loop"]
                    /\ UNCHANGED <<rtext, injected>>
               ELSE /\ rpc' = [rpc EXCEPT ![r] = "type"]
                    /\ rtext' = [rtext EXCEPT ![r] = text]
                    /\ injected' = [injected EXCEPT ![r] = @ \o text]
       ELSE /\ nc_state[rsrc[r]] # "running"
            /\ rpc' = [rpc EXCEPT ![r] = "done"]
            /\ rsrc' = [rsrc EXCEPT ![r] = None]
            /\ UNCHANGED <<pipe, rtext, injected>>
    /\ UNCHANGED <<globals, locals, ctl, rtmp, arecord_state, nc_state, main_pc,
                   socket_file, cleanup_log, nsessions, nlines, sessionOpen, emitted>>

\* handle_streaming_output, lines 111-114: type_text returns (after however
\* long the tool takes) and the += loads typed_so_far.
ReaderType(r) ==
    /\ Alive
    /\ rpc[r] = "type"
    /\ rpc' = [rpc EXCEPT ![r] = "store"]
    /\ rtmp' = [rtmp EXCEPT ![r] = typed_so_far]
    /\ UNCHANGED <<globals, locals, ctl, rsrc, rtext, procVars, main_pc, socket_file, cleanup_log,
                   nsessions, nlines, sessionOpen, emitted, injected>>

\* handle_streaming_output, line 114: the += stores the concatenation.
ReaderStore(r) ==
    /\ Alive
    /\ rpc[r] = "store"
    /\ typed_so_far' = rtmp[r] \o rtext[r]
    /\ rpc' = [rpc EXCEPT ![r] = "loop"]
    /\ rtext' = [rtext EXCEPT ![r] = <<>>]
    /\ rtmp' = [rtmp EXCEPT ![r] = <<>>]
    /\ UNCHANGED <<arecord_proc, nc_proc, reader_thread, streaming_lock, stop_reader,
                   locals, ctl, rsrc, procVars, main_pc, socket_file, cleanup_log, nsessions, nlines,
                   sessionOpen, emitted, injected>>

\* ---------------------------------------------------------- environment
\* The relay of session s writes one more line of the backend to its stdout.
RelayEmit(s, l) ==
    /\ Alive
    /\ nc_state[s] = "running"
    /\ nlines < MaxLines
    /\ nlines' = nlines + 1
    /\ pipe' = [pipe EXCEPT ![s] = Append(@, l)]
    /\ emitted' = [emitted EXCEPT ![s] = Append(@, l)]
    /\ UNCHANGED <<globals, locals, ctl, readerVars, arecord_state, nc_state, main_pc,
                   socket_file, cleanup_log, nsessions, sessionOpen, injected>>

\* The relay of session s exits on its own: its stdout reaches end of file.
RelayExit(s) ==
    /\ Alive
    /\ nc_state[s] = "running"
    /\ nc_state' = [nc_state EXCEPT ![s] = "dead"]
    /\ UNCHANGED <<globals, locals, ctl, readerVars, arecord_state, pipe, main_pc,
                   socket_file, cleanup_log, nsessions, nlines, sessionOpen, emitted, injected>>

\* -------------------------------------------------------------- cleanup
\* cleanup, lines 326-337, entered from the signal handler or from main's
\* finally: stop_reader.set(), terminate the capturer and clear its handle.
CleanupBegin ==
    /\ main_pc = "serving"
    /\ main_pc' = "cleanup_nc"
    /\ stop_reader' = TRUE
    /\ IF arecord_proc # None
       THEN /\ arecord_state' = [arecord_state EXCEPT ![arecord_proc] = "dead"]
            /\ arecord_proc' = None
       ELSE UNCHANGED <<arecord_state, arecord_proc>>
    /\ cleanup_log' = <<"stop_reader.set">> \o
                      (IF arecord_proc # None THEN <<"arecord_proc.terminate">> ELSE <<>>)
    /\ solo' = [u \in Threads |-> FALSE]
    /\ last' = NoLast
    /\ UNCHANGED <<nc_proc, reader_thread, streaming_lock, typed_so_far, locals, pc, cmd,
                   ncmds, after, readerVars, nc_state, pipe, socket_file, nsessions,
                   nlines, sessionOpen, emitted, injected>>

\* cleanup, lines 339-347: terminate the relay, remove the socket file,
\* sys.exit(0).  The process image is gone: its threads and variables no
\* longer exist (they are given their initial values); the child processes
\* stay as they are.
CleanupExit ==
    /\ main_pc = "cleanup_nc"
    /\ main_pc' = "exited"
    /\ nc_state' = IF nc_proc # None THEN [nc_state EXCEPT ![nc_proc] = "dead"]
                   ELSE nc_state
    /\ socket_file' = FALSE
    /\ cleanup_log' = cleanup_log \o
                      (IF nc_proc # None THEN <<"nc_proc.terminate">> ELSE <<>>) \o
                      (IF socket_file THEN <<"os.remove">> ELSE <<>>)
    /\ arecord_proc' = None /\ nc_proc' = None /\ reader_thread' = None
    /\ streaming_lock' = None
    /\ typed_so_far' = <<>>
    /\ stop_reader' = FALSE
    /\ pc' = [t \in Threads |-> "idle"]
    /\ cmd' = [t \in Threads |-> "none"]
    /\ is_streaming' = [t \in Threads |-> FALSE]
    /\ final_text' = [t \in Threads |-> <<>>]
    /\ sess' = [t \in Threads |-> None]
    /\ rpc' = [r \in Sessions |-> "none"]
    /\ rsrc' = [r \in Sessions |-> None]
    /\ rtext' = [r \in Sessions |-> <<>>]
    /\ rtmp' = [r \in Sessions |-> <<>>]
    /\ pipe' = [s \in Sessions |-> <<>>]
    /\ ncmds' = 0 /\ nsessions' = 0 /\ nlines' = 0
    /\ sessionOpen' = FALSE
    /\ emitted' = [s \in Sessions |-> <<>>]
    /\ injected' = [r \in Sessions |-> <<>>]
    /\ solo' = [t \in Threads |-> FALSE]
    /\ after' = [t \in Threads |-> FALSE]
    /\ last' = NoLast
    /\ UNCHANGED arecord_state

\* ------------------------------------------------------------ behaviours
Next ==
    \/ \E t \in Threads : StartCheck(t)
    \/ \E t \in Threads, avail \in BOOLEAN : StartProbe(t, avail)
    \/ \E t \in Threads, o \in {"ok", "FileNotFoundError"} : StartArecord(t, o)
    \/ \E t \in Threads, o \in {"ok", "FileNotFoundError", "Exception"} : StartNc(t, o)
    \/ \E t \in Threads : StartReader(t)
    \/ \E t \in Threads : StopCheck(t)
    \/ \E t \in Threads : StopArecord(t)
    \/ \E t \in Threads : StopNc(t)
    \/ \E t \in Threads : StopJoin(t)
    \/ \E t \in Threads : StopRaise(t)
    \/ \E t \in Threads : StopFinally(t)
    \/ \E t \in Threads : ToggleCheck(t)
    \/ \E t \in Threads : StatusCheck(t)
    \/ \E t \in Threads, avail \in BOOLEAN : StatusReturn(t, avail)
    \/ \E r \in Sessions : ReaderLoop(r)
    \/ \E r \in Sessions : ReaderReadline(r)
    \/ \E r \in Sessions : ReaderType(r)
    \/ \E r \in Sessions : ReaderStore(r)
    \/ \E s \in Sessions, l \in LineIds : RelayEmit(s, l)
    \/ \E s \in Sessions : RelayExit(s)
    \/ CleanupBegin
    \/ CleanupExit

Spec == Init /\ [][Next]_vars

\* The steps of command thread t.
ThreadNext(t) ==
    \/ StartCheck(t)
    \/ \E avail \in BOOLEAN : StartProbe(t, avail)
    \/ \E o \in {"ok", "FileNotFoundError"} : StartArecord(t, o)
    \/ \E o \in {"ok", "FileNotFoundError", "Exception"} : StartNc(t, o)
    \/ StartReader(t)
    \/ StopCheck(t) \/ StopArecord(t) \/ StopNc(t) \/ StopJoin(t) \/ StopRaise(t)
    \/ StopFinally(t)
    \/ ToggleCheck(t)
    \/ StatusCheck(t)
    \/ \E avail \in BOOLEAN : StatusReturn(t, avail)

\* A command thread that has begun a command keeps being scheduled: every
\* wait it makes is bounded (probe 1 s, capturer 2 s, relay 3 s, join 2 s) and
\* the lock is handed over once it is free.  Nothing is assumed of the
\* reader threads, the external processes, the clients or the signals.
LiveSpec ==
    Init /\ [][Next]_vars /\ \A t \in Threads : WF_vars(pc[t] # "idle" /\ ThreadNext(t))

\* =================================================================== claims
Range(f) == {f[i] : i \in DOMAIN f}

\* The session record apart from the lock.
session == <<arecord_proc, nc_proc, reader_thread, stop_reader, typed_so_far>>

C2_StartWhileActive ==
    [][\A t \in Threads :
          (StartCheck(t) /\ arecord_proc # None) =>
              /\ last'.resp = Resp("error", MsgAlready, <<>>)
              /\ pc'[t] = "idle"
              /\ UNCHANGED <<session, streaming_lock, readerVars, procVars>>]_vars

C2_Witness ==
    last.cmd = "start" /\ last.resp.message = MsgAlready /\ typed_so_far # <<>>

\* C3: a stop that finds the session Idle returns the error "Not streaming",
\* never ok, and leaves the session record and the processes as they were.
C3_StopWhileIdle ==
    [][\A t \in Threads :
          (StopCheck(t) /\ arecord_proc = None) =>
              /\ last'.resp = Resp("error", MsgNotStreaming, <<>>)
              /\ pc'[t] = "idle"
              /\ UNCHANGED <<session, streaming_lock, readerVars, procVars>>]_vars

C3_Witness ==
    last.cmd = "stop" /\ last.resp.message = MsgNotStreaming /\ ~stop_reader

\* C9: when the probe fails, start returns an error whose message names host
\* and port, spawns nothing, and leaves the session Idle with the handles,
\* the accumulated text and the cancellation flag unchanged.
C9_ProbeFails ==
    [][\A t \in Threads :
          StartProbe(t, FALSE) =>
              /\ last'.resp.status = "error"
              /\ {STREAMING_HOST, STREAMING_PORT} \subseteq Range(last'.resp.message)
              /\ arecord_proc' = None
              /\ UNCHANGED <<session, readerVars, procVars, nsessions>>]_vars

C9_Witness ==
    last.cmd = "start" /\ last.resp.message = MsgUnavailable /\ typed_so_far # <<>>

\* C10: no step of status changes the capturer handle (the active flag), the
\* relay handle, the reader handle, the cancellation flag or the accumulated
\* text.
C10_StatusReadOnly ==
    [][\A t \in Threads :
          (StatusCheck(t) \/ \E avail \in BOOLEAN : StatusReturn(t, avail)) =>
              UNCHANGED session]_vars

C10_Witness ==
    last.cmd = "status" /\ ~last.resp.streaming /\ typed_so_far # <<>>

\* A stop of the first session that is about to return after a regular
\* teardown: the daemon is serving and the capturer was terminated.
RegularStop(t) ==
    /\ StopFinally(t)
    /\ main_pc = "serving"
    /\ nsessions = 1
    /\ arecord_state[sess[t]] = "dead"

\* C4 as stated: when stop completes, the accumulated text is the
\* concatenation, in delivery order, of the parsed text of every line the
\* relay wrote during the session.  Stated for a stop whose relay has reached
\* end of stream and whose reader has finished before the join.
C4_FinalTextIsAllLines ==
    [][\A t \in Threads :
          (RegularStop(t) /\ nc_state[sess[t]] = "dead" /\ rpc[sess[t]] = "done") =>
              typed_so_far' = ConcatText(emitted[sess[t]])]_vars

\* C5 as stated: the text a successful stop returns contains, in injection
\* order, every segment the session's reader has passed to type_text.
C5_ReturnedTextHasInjected ==
    [][\A t \in Threads :
          RegularStop(t) => IsSubseq(injected[sess[t]], last'.resp.text)]_vars

\* C6 as stated: a toggle never returns "Already streaming" or "Not
\* streaming".  Stated for the toggles that return while the daemon serves.
C6_ToggleNeverStateError ==
    (main_pc = "serving" /\ last.cmd = "toggle") =>
        last.resp.message \notin {MsgAlready, MsgNotStreaming}

\* The toggle that returned last ran with nothing else running, found the
\* session Idle and the backend reachable.
SoloToggleFromIdle ==
    /\ last.cmd = "toggle" /\ last.solo /\ ~last.streaming
    /\ last.resp.message # MsgUnavailable

\* The toggle that returned last ran with nothing else running, directly
\* after a toggle that ran alone from Idle and returned ok.
SoloToggleAfterFirst == last.cmd = "toggle" /\ last.solo /\ last.after

\* What C7 says of the second toggle: it found the session Active, returns
\* ok with the text, an empty text with the "no speech detected" message, and
\* leaves the session Idle.
SecondToggleStops ==
    /\ last.streaming
    /\ last.resp.status = "ok"
    /\ last.resp.message = (IF last.resp.text = <<>> THEN MsgNoSpeech ELSE MsgStopped)
    /\ arecord_proc = None /\ nc_proc = None /\ reader_thread = None

C8_HandlesAgree ==
    streaming_lock = None => ((arecord_proc = None) <=> (nc_proc = None))

\* The same while the daemon is serving (cleanup has not begun).
HandlesAgreeWhileServing ==
    (main_pc = "serving" /\ streaming_lock = None) =>
        ((arecord_proc = None) <=> (nc_proc = None))

\* The lines of session s's pipeline that have been read so far, in order.
Consumed(s) == SubSeq(emitted[s], 1, Len(emitted[s]) - Len(pipe[s]))

\* The accumulated text is the text of the lines read from s's pipeline, in
\* the order they were read, up to at most the one line being processed.
InOrder(s) ==
    \E k \in {Len(Consumed(s)) - 1, Len(Consumed(s))} :
        k >= 0 /\ typed_so_far = ConcatText(SubSeq(Consumed(s), 1, k))

\* C11 as stated: while a session is active the accumulated text is the text
\* of the segments injected so far, in injection order, up to the one segment
\* being processed.  Stated for a session before which no relay wrote a line
\* (every segment there is comes from this session's pipeline) and every
\* capturer was terminated (no earlier teardown raised).
C11_InjectionMatchesAccumulation ==
    (/\ main_pc = "serving" /\ nc_proc # None
     /\ \A s \in Sessions \ {nc_proc} :
            emitted[s] = <<>> /\ arecord_state[s] # "running") => InOrder(nc_proc)

\* The same holds in the first session of a run, where one reader exists.
InOrderFirstSession ==
    (main_pc = "serving" /\ nc_proc # None /\ nsessions = 1) => InOrder(nc_proc)

\* Thread t is inside a start or stop transition.
InTransition(t) ==
    pc[t] \in {"start_probe", "start_arecord", "start_nc", "start_reader",
               "stop_arecord", "stop_nc", "stop_join", "stop_finally"}

\* C12: a thread inside a start or stop transition holds the lock, so no two
\* threads are inside one at the same time; whenever the lock is free the
\* two handles name one pipeline; and a start spawns a capturer only when no
\* capturer is owned (and, while the daemon serves, no relay is owned and no
\* session is open).
C12_MutualExclusion ==
    /\ [](/\ \A t \in Threads : InTransition(t) => streaming_lock = t
          /\ Cardinality({t \in Threads : InTransition(t)}) <= 1
          /\ (streaming_lock = None /\ arecord_proc # None /\ nc_proc # None)
                 => arecord_proc = nc_proc)
    /\ [][\A t \in Threads :
             StartArecord(t, "ok") =>
                 /\ arecord_proc = None
                 /\ main_pc = "serving" => (nc_proc = None /\ ~sessionOpen)]_vars

C12_Witness ==
    \E t, u \in Threads :
        /\ streaming_lock = t /\ pc[t] = "stop_join"
        /\ pc[u] = "toggle_start"

\* C13 as stated: a reader only ever reads lines from the pipeline of the
\* session it was started for.  Stated for the reads made while the daemon
\* serves and every capturer of an earlier session has been terminated.
C13_ReaderReadsOwnPipeline ==
    \A r \in Sessions :
        (/\ main_pc = "serving" /\ rpc[r] = "readline"
         /\ \A s \in Sessions \ {rsrc[r]} : arecord_state[s] # "running") => rsrc[r] = r

\* C14 as stated: while the session is Idle (no capturer handle, no start or
\* stop in progress) the accumulated text is not modified.  Stated for the
\* time the daemon serves with no capturer running (no teardown raised).
C14_NoChangeWhileIdle ==
    [][(/\ main_pc = "serving" /\ arecord_proc = None /\ streaming_lock = None
        /\ \A s \in Sessions : arecord_state[s] # "running")
           => typed_so_far' = typed_so_far]_vars

\* C15 as stated: the handles and the accumulated text are written only
\* while the session lock is held.
C15_WritesHoldLock ==
    [][(/\ main_pc' # "exited"
        /\ <<arecord_proc, nc_proc, reader_thread, typed_so_far>>' #
               <<arecord_proc, nc_proc, reader_thread, typed_so_far>>)
           => streaming_lock # None]_vars

\* C16: in a stop the cancellation flag is set when the capturer is
\* terminated; the relay is awaited and terminated only after the capturer is
\* gone; the reader is joined, and the final text read, only after capturer
\* and relay are gone.
C16_TeardownOrder ==
    [][\A t \in Threads :
          /\ StopArecord(t) => stop_reader
          /\ StopNc(t) => (stop_reader /\ arecord_state[sess[t]] # "running")
          /\ StopJoin(t) => /\ stop_reader
                            /\ arecord_state[sess[t]] # "running"
                            /\ nc_state[sess[t]] # "running"
                            /\ final_text'[t] = typed_so_far]_vars

C16_Witness ==
    \E t \in Threads :
        /\ pc[t] = "stop_finally" /\ main_pc = "serving"
        /\ arecord_state[sess[t]] = "dead" /\ nc_state[sess[t]] = "dead"
        /\ final_text[t] # <<>>

\* C17: a stop of an Active session returns ok with all three handles
\* released and the lock free; the text it returns is the one it holds, which
\* after a teardown step raised is the text read before the teardown began.
C17_StopAlwaysReleases ==
    [][\A t \in Threads :
          /\ (StopCheck(t) /\ arecord_proc # None) => final_text'[t] = typed_so_far
          /\ StopRaise(t) => (final_text'[t] = final_text[t] /\ pc'[t] = "stop_finally")
          /\ StopFinally(t) =>
                 /\ arecord_proc' = None /\ nc_proc' = None /\ reader_thread' = None
                 /\ streaming_lock' = None
                 /\ pc'[t] = "idle"
                 /\ last'.resp = StopResponse(final_text[t])]_vars

C17_Witness ==
    /\ main_pc = "serving" /\ nsessions = 1 /\ arecord_state[1] = "running"
    /\ last.cmd = "stop" /\ last.resp.message = MsgStopped
    /\ arecord_proc = None /\ nc_proc = None /\ reader_thread = None

\* C18 as stated: a cleanup that ends while a session is open has signalled
\* the reader, terminated the capturer, waited for the relay, joined the
\* reader and removed the socket file, in this order.
C18_CleanupTearsDownLikeStop ==
    [][(CleanupExit /\ sessionOpen) =>
           IsSubseq(<<"stop_reader.set", "arecord_proc.terminate", "nc_proc.wait",
                      "reader_thread.join", "os.remove">>, cleanup_log')]_vars

\* What cleanup does do: signal, terminate the capturer if its handle is set,
\* terminate the relay if its handle is set, remove the socket file.
CleanupOrder ==
    main_pc = "exited" =>
        /\ IsSubseq(cleanup_log, <<"stop_reader.set", "arecord_proc.terminate",
                                   "nc_proc.terminate", "os.remove">>)
        /\ {"stop_reader.set", "os.remove"} \subseteq Range(cleanup_log)
        /\ ~socket_file

\* No command is in progress and the lock is free.
AllReturned == streaming_lock = None /\ \A t \in Threads : pc[t] = "idle"

\* C19: whatever the capturer, the relay and the reader do, every stop that
\* has begun returns and releases the lock, and so does every other command
\* that has begun: again and again no command is in progress and the lock
\* is free.
C19_StopReturns == []<>AllReturned

C19_Witness ==
    \E t, u \in Threads :
        /\ pc[t] = "stop_finally" /\ main_pc = "serving" /\ reader_thread # None
        /\ rpc[reader_thread] = "type"
        /\ pc[u] = "toggle_start"

\* C20 as stated: when the relay cannot be spawned, the start returns with
\* the capturer it had spawned no longer running.
C20_FailedStartLeavesNoProcess ==
    [][\A t \in Threads :
          (\E o \in {"FileNotFoundError", "Exception"} : StartNc(t, o) /\ sess[t] # None)
              => arecord_state'[sess[t]] # "running"]_vars

====
